---------------------------- MODULE Spec2Model ----------------------------
(***************************************************************************)
(* A model of the sphere-marching ray tracer (src/src/main.rs, with the    *)
(* library copy in src/src/lib.rs and src/src/distfield.rs).               *)
(*                                                                         *)
(* Numbers.  An f32 is a fixed-point integer: the real number x is the     *)
(* integer x * Unit ("ticks").  The marcher's minimum step 0.01 is         *)
(* MinStep = 2 ticks, so Unit = 200 and a positive distance smaller than   *)
(* the minimum step (1 tick) exists.  A product of two reals is            *)
(* (a * b) \div Unit, rounded down; sin is a rational approximation.       *)
(* Rounding of f32 itself and NaN are outside the model: normalize of the  *)
(* zero vector is the value NaN, which no reachable state computes with.   *)
(*                                                                         *)
(* Space.  The scene is modelled on one axis: a position or direction Vec3 *)
(* is a single coordinate, a Vec3::new(a, b, c) literal keeps its first    *)
(* component, and a read of p.x, p.y or p.z reads that coordinate.  A unit *)
(* direction is Unit or -Unit.  A colour Vec3 keeps its three channels.    *)
(*                                                                         *)
(* Four specifications share the variables; each leaves the others' idle:  *)
(*   SpecCSG     union, intersect, invert applied to arbitrary samples     *)
(*   SpecMarch   one call of raycast or raycast_out, iteration by          *)
(*               iteration (LiveMarch: the loop keeps running)             *)
(*   SpecTrace   one top-level call of raytrace and its pixel              *)
(*   SpecRender  main's parallel map, progress counter and image           *)
(***************************************************************************)
EXTENDS Integers, Sequences, FiniteSets

VARIABLES
    \* the CSG operators: two operand samples, the operator applied, its result
    csgA, csgB, csgOp, csgRes,
    \* one call of raycast or raycast_out: which function, its arguments, the
    \* loop variable p, the points the loop has left behind, where the call
    \* stands and what it returned
    mkind, mfrom, mdir, mcond, mp, mvisited, mpc, mres,
    \* one top-level call of raytrace and the pixel made of it: the arguments
    \* of the call now running, the suspended callers (each waiting for its
    \* reflected colour), the value being returned, the record of every call
    \* issued so far, where the computation stands, and the pixel
    tfrom, tdir, tn, tstack, tret, tlog, tpc, tpixel,
    \* main: the progress counter and the bar behind the mutex, the mutex's
    \* holder, each worker's place (its chunk of pixel indices, the index it is
    \* at, the counter value it read), the chunks handed out, the collected
    \* pixels, the image, the values the counter has taken, how often each
    \* pixel was computed, the index computed first, and the phase of main
    rnum, rbar, rlock, wpc, wend, widx, wlocal, rtaken, rpixels, rimg, rhist, rcount,
    rfirst, rphase

csgVars == <<csgA, csgB, csgOp, csgRes>>

marchVars == <<mkind, mfrom, mdir, mcond, mp, mvisited, mpc, mres>>

traceVars == <<tfrom, tdir, tn, tstack, tret, tlog, tpc, tpixel>>

renderVars == <<rnum, rbar, rlock, wpc, wend, widx, wlocal, rtaken, rpixels, rimg,
                rhist, rcount, rfirst, rphase>>

vars == <<csgA, csgB, csgOp, csgRes,
          mkind, mfrom, mdir, mcond, mp, mvisited, mpc, mres,
          tfrom, tdir, tn, tstack, tret, tlog, tpc, tpixel,
          rnum, rbar, rlock, wpc, wend, widx, wlocal, rtaken, rpixels, rimg,
          rhist, rcount, rfirst, rphase>>

---------------------------------------------------------------------------
(* Fixed point *)

\* the minimum step 0.01 of raycast and raycast_out, in ticks
MinStep == 2

\* ticks per 1.0
Unit == 100 * MinStep

Abs(x) == IF x < 0 THEN -x ELSE x

Min(x, y) == IF x < y THEN x ELSE y

Max(x, y) == IF x < y THEN y ELSE x

\* a * b of two fixed-point numbers, rounded down; b is split so that no
\* intermediate product leaves 32 bits
Mul(a, b) == a * (b \div Unit) + (a * (b % Unit)) \div Unit

\* pi and 2 pi in milliradians
Pi == 3142

TwoPi == 2 * Pi

\* sin on [0, pi] (milliradians in, thousandths out), Bhaskara's rational form
\* 16 a (pi - a) / (5 pi^2 - 4 a (pi - a))
SinHalf(a) ==
    LET q == a * (Pi - a)
    IN (4 * q) \div ((5 * Pi * Pi - 4 * q) \div 4000)

\* f32::sin of the angle (freq / 1000) * x, x in ticks, freq in thousandths of
\* a radian per unit; the result in ticks
Sin(x, freq) ==
    LET a == ((x * freq) \div Unit) % TwoPi
        s == IF a <= Pi THEN SinHalf(a) ELSE -SinHalf(a - Pi)
    IN (s * Unit) \div 1000

---------------------------------------------------------------------------
(* Surfaces and samples *)

Color(r, g, b) == <<r, g, b>>

Surface(color, reflectivity) == [color |-> color, reflectivity |-> reflectivity]

Sample(distance, surface) == [distance |-> distance, surface |-> surface]

\* tenths of 1.0 in ticks
T(n) == (n * Unit) \div 10

mat1 == Surface(Color(T(10), T(8), T(4)), T(4))

mat2 == Surface(Color(T(4), T(8), T(10)), T(2))

mat3 == Surface(Color(T(10), T(4), T(8)), T(0))

---------------------------------------------------------------------------
(* CSG operators *)

\* union with its comparison turned round
unionLarger(s1, s2) == IF s1.distance > s2.distance THEN s1 ELSE s2

union(s1, s2) == IF s1.distance < s2.distance THEN s1 ELSE s2

intersect(s1, s2) == IF s1.distance < s2.distance THEN s2 ELSE s1

invert(s) == Sample(-1 * s.distance, s.surface)

\* distance(p, center) on one axis
distance(p, q) == Abs(p - q)

sphere(p, center, radius, surface) == Sample(distance(p, center) - radius, surface)

\* p + Vec3::new((0.4 * p.y).sin(), ...): the first component
warp(p) == p + Sin(p, 400)

displace(p, scale, detail, s) ==
    LET a == Sin(p, detail)
        cube == Mul(Mul(a, a), a)
        displacement == Mul(scale, cube)
    IN Sample(s.distance + displacement, s.surface)

distfield(p) ==
    intersect(
        union(
            sphere(warp(p), -30 * Unit, 65 * Unit, mat1),
            sphere(p, 30 * Unit, 50 * Unit, mat2)),
        invert(displace(p, 10 * Unit, 200,
                        sphere(p, 10 * Unit, 30 * Unit, mat3))))

---------------------------------------------------------------------------
(* Lights and the conditions the callers of raycast pass *)

Light(pos, color) == [pos |-> pos, color |-> color]

\* the lights of main
lights ==
    << Light(500 * Unit, Color(T(10), T(5), T(0))),
       Light(-700 * Unit, Color(T(0), T(5), T(10))),
       Light(-700 * Unit, Color(T(5), T(0), T(10))),
       Light(10 * Unit, Color(T(3), T(2), T(2))) >>

\* the eye of main
eye == 0 * Unit

dot(a, b) == Mul(a, b)

\* distance2(a, b), the squared distance: with |a - b| = q * Unit + r it is
\* q^2 * Unit + 2 q r + r^2 / Unit, which stays inside 32 bits
distance2(a, b) ==
    LET d == Abs(a - b)
        q == d \div Unit
        r == d % Unit
    IN q * q * Unit + 2 * q * r + (r * r) \div Unit

\* the bound of raytrace's closure |p| distance2(from, p) < 1000000.
EscapeBound2 == 1000000

\* raytrace's closure
EscapeCond(from) == [kind |-> "escape", from |-> from]

\* in_shadow's closure |p| dot(&(self.pos - p), &l) > 0.
LightCond(pos, l) == [kind |-> "light", pos |-> pos, l |-> l]

\* condition(&p)
Holds(cond, p) ==
    IF cond.kind = "escape"
    THEN distance2(cond.from, p) < EscapeBound2 * Unit
    ELSE dot(cond.pos - p, cond.l) > 0

---------------------------------------------------------------------------
(* raycast and raycast_out, one loop iteration at a time *)

\* the step without the minimum
StepLenUnclamped(d) == d

\* the step with nothing in place of the minimum
StepLenNoMinimum(d) == IF d > MinStep THEN d ELSE 0

\* let step = if d > 0.01 { d } else { 0.01 }
StepLen(d) == IF d > MinStep THEN d ELSE MinStep

\* p += dir * step
Advance(p, dir, step) == p + Mul(dir, step)

\* the test that lets a sample of distance 0 pass
IsHitStrict(s) == s.distance < 0

\* raycast's test of the sample: s.distance <= 0.
IsHit(s) == s.distance <= 0

\* raycast_out's f and its test f < 0.
OutValue(p) == -1 * distfield(p).distance

\* the test that stops on the surface itself
IsOutOrOn(f) == f <= 0

IsOut(f) == f < 0

None == [some |-> FALSE]

Some(v) == [some |-> TRUE, value |-> v]

\* the loop of a call that never returns is cut after this many iterations
MaxIter == 60

\* while condition(&p) fails: None
RaycastEscape ==
    /\ mpc = "loop"
    /\ mkind = "raycast"
    /\ ~Holds(mcond, mp)
    /\ mpc' = "done"
    /\ mres' = None
    /\ UNCHANGED <<mkind, mfrom, mdir, mcond, mp, mvisited>>
    /\ UNCHANGED <<csgVars, traceVars, renderVars>>

\* if s.distance <= 0. { return Some((s, p)); }
RaycastHit ==
    /\ mpc = "loop"
    /\ mkind = "raycast"
    /\ Holds(mcond, mp)
    /\ IsHit(distfield(mp))
    /\ mpc' = "done"
    /\ mres' = Some([s |-> distfield(mp), p |-> mp])
    /\ UNCHANGED <<mkind, mfrom, mdir, mcond, mp, mvisited>>
    /\ UNCHANGED <<csgVars, traceVars, renderVars>>

\* p += dir * step
RaycastAdvance ==
    /\ mpc = "loop"
    /\ mkind = "raycast"
    /\ Len(mvisited) < MaxIter
    /\ Holds(mcond, mp)
    /\ ~IsHit(distfield(mp))
    /\ mp' = Advance(mp, mdir, StepLen(distfield(mp).distance))
    /\ mvisited' = Append(mvisited, mp)
    /\ UNCHANGED <<mkind, mfrom, mdir, mcond, mpc, mres>>
    /\ UNCHANGED <<csgVars, traceVars, renderVars>>

\* if f < 0. { break; } ... p
RaycastOutReturn ==
    /\ mpc = "loop"
    /\ mkind = "raycast_out"
    /\ IsOut(OutValue(mp))
    /\ mpc' = "done"
    /\ mres' = Some(mp)
    /\ UNCHANGED <<mkind, mfrom, mdir, mcond, mp, mvisited>>
    /\ UNCHANGED <<csgVars, traceVars, renderVars>>

\* p += dir * step
RaycastOutAdvance ==
    /\ mpc = "loop"
    /\ mkind = "raycast_out"
    /\ Len(mvisited) < MaxIter
    /\ ~IsOut(OutValue(mp))
    /\ mp' = Advance(mp, mdir, StepLen(OutValue(mp)))
    /\ mvisited' = Append(mvisited, mp)
    /\ UNCHANGED <<mkind, mfrom, mdir, mcond, mpc, mres>>
    /\ UNCHANGED <<csgVars, traceVars, renderVars>>

\* the origins a march is called with: a grid over the scene, each grid point
\* also one tick further on
MaxGrid == 24

GridStep == 5 * Unit

StartPoints == {k * GridStep + o : k \in -MaxGrid..MaxGrid, o \in {0, 1}}

Directions == {Unit, -Unit}

LightPositions == {lights[i].pos : i \in 1..Len(lights)}

MarchInit ==
    /\ mfrom \in StartPoints
    /\ mdir \in Directions
    /\ \/ /\ mkind = "raycast"
          /\ mcond \in {EscapeCond(mfrom)} \cup {LightCond(l, mdir) : l \in LightPositions}
       \/ /\ mkind = "raycast_out"
          /\ mcond = None
    /\ mp = mfrom
    /\ mvisited = << >>
    /\ mpc = "loop"
    /\ mres = None

MarchIdle ==
    /\ mkind = "none"
    /\ mfrom = 0
    /\ mdir = Unit
    /\ mcond = None
    /\ mp = 0
    /\ mvisited = << >>
    /\ mpc = "idle"
    /\ mres = None

MarchNext ==
    \/ RaycastEscape
    \/ RaycastHit
    \/ RaycastAdvance
    \/ RaycastOutReturn
    \/ RaycastOutAdvance

---------------------------------------------------------------------------
(* raycast and raycast_out as functions, for their callers *)

RECURSIVE RaycastLoop(_, _, _)
RaycastLoop(p, dir, condition) ==
    IF ~Holds(condition, p)
    THEN None
    ELSE IF IsHit(distfield(p))
         THEN Some([s |-> distfield(p), p |-> p])
         ELSE RaycastLoop(Advance(p, dir, StepLen(distfield(p).distance)), dir, condition)

raycast(from, dir, condition) == RaycastLoop(from, dir, condition)

RECURSIVE RaycastOutLoop(_, _)
RaycastOutLoop(p, dir) ==
    IF IsOut(OutValue(p))
    THEN p
    ELSE RaycastOutLoop(Advance(p, dir, StepLen(OutValue(p))), dir)

raycast_out(from, dir) == RaycastOutLoop(from, dir)

---------------------------------------------------------------------------
(* Normals, lights, shading *)

\* what normalize makes of the zero vector
NaN == "NaN"

normalize(v) == IF v > 0 THEN Unit ELSE IF v < 0 THEN -Unit ELSE NaN

\* a / b of two fixed-point numbers
Div(a, b) == (a * Unit) \div b

\* the delta 0.01 of guess_normal
delta == Unit \div 100

guess_normal(p) ==
    normalize(Div(distfield(p + delta).distance - distfield(p - delta).distance,
                  2 * delta))

reflect_vec(i, n) == i - Mul(2 * dot(i, n), n)

clamp_scalar(x, lo, hi) == IF x < lo THEN lo ELSE IF x > hi THEN hi ELSE x

\* the shadow ray bounded like a camera ray, not by the light
ShadowCondEscape(light, l) == EscapeCond(light.pos)

\* the condition of the shadow ray
ShadowCond(light, l) == LightCond(light.pos, l)

in_shadow(light, point) ==
    LET l == normalize(light.pos - point)
        p == raycast_out(point, l)
    IN raycast(p, l, ShadowCond(light, l)).some

diffuse(light, p, n) ==
    LET l == normalize(light.pos - p)
    IN clamp_scalar(dot(n, l), 0, Unit)

Black == Color(0, 0, 0)

\* colour arithmetic, channel by channel
ColorAdd(a, b) == [i \in 1..3 |-> a[i] + b[i]]

component_mul(a, b) == [i \in 1..3 |-> Mul(a[i], b[i])]

ColorScale(a, k) == [i \in 1..3 |-> Mul(a[i], k)]

mix(x, y, a) == [i \in 1..3 |-> Mul(x[i], Unit - a) + Mul(y[i], a)]

\* the body of the loop of apply_lights
AddLight(rgb, light, p, s, n) ==
    IF ~in_shadow(light, p)
    THEN ColorAdd(rgb, ColorScale(component_mul(light.color, s.color), diffuse(light, p, n)))
    ELSE rgb

RECURSIVE ApplyLightsFrom(_, _, _, _, _, _)
ApplyLightsFrom(i, rgb, p, s, n, ls) ==
    IF i > Len(ls)
    THEN rgb
    ELSE ApplyLightsFrom(i + 1, AddLight(rgb, ls[i], p, s, n), p, s, n, ls)

apply_lights(p, s, n, ls) == ApplyLightsFrom(1, Black, p, s, n, ls)

---------------------------------------------------------------------------
(* raytrace, one call or return at a time, and the pixel of main *)

\* unwrap_or(Vec3::new(0.3, 0.3, 0.3))
Ambient == Color(T(3), T(3), T(3))

\* the test without the bounce count
ShouldReflectAlways(reflectivity, max_bounces) == reflectivity > 0

\* if reflectivity > 0.0 && max_bounces > 0
ShouldReflect(reflectivity, max_bounces) == reflectivity > 0 /\ max_bounces > 0

\* the bounce count of the secondary call
NextBounces(max_bounces) == max_bounces - 1

\* the blend that passes a missed reflection ray on as a miss
BlendOrNone(rgb, reflectivity, ret) ==
    IF ret.some THEN Some(mix(rgb, ret.value, reflectivity)) ELSE None

\* what a call returns once its secondary call has returned ret
Blend(rgb, reflectivity, ret) ==
    Some(mix(rgb, IF ret.some THEN ret.value ELSE Ambient, reflectivity))

\* rgb_scaled.x as u8: towards zero, saturating
AsU8(x) == IF x < 0 THEN 0 ELSE IF x > 255 THEN 255 ELSE x

\* main's pixel of what raytrace returned
PixelOf(ret) ==
    IF ret.some
    THEN << AsU8((ret.value[1] * 255) \div Unit),
            AsU8((ret.value[2] * 255) \div Unit),
            AsU8((ret.value[3] * 255) \div Unit), 255 >>
    ELSE <<0, 0, 0, 0>>

\* the call now running
ThisCall == tlog[Len(tlog)]

CallRecord(from, dir, max_bounces) ==
    [from |-> from, dir |-> dir, max_bounces |-> max_bounces, hit |-> FALSE]

HitRecord(c, hit, n, rgb) ==
    [from |-> c.from, dir |-> c.dir, max_bounces |-> c.max_bounces, hit |-> TRUE,
     p |-> hit.p, s |-> hit.s, n |-> n, direct |-> rgb]

\* the march of the call now running
ThisHit == raycast(tfrom, tdir, EscapeCond(tfrom))

\* raycast(...) is None: map leaves it None
TraceMiss ==
    /\ tpc = "call"
    /\ ~ThisHit.some
    /\ tret' = None
    /\ tpc' = "ret"
    /\ UNCHANGED <<tfrom, tdir, tn, tstack, tlog, tpixel>>
    /\ UNCHANGED <<csgVars, marchVars, renderVars>>

\* a hit that sends no reflection ray: the direct colour is the result
TraceHit ==
    /\ tpc = "call"
    /\ ThisHit.some
    /\ LET hit == ThisHit.value
           n == guess_normal(hit.p)
           rgb == apply_lights(hit.p, hit.s.surface, n, lights)
       IN /\ ~ShouldReflect(hit.s.surface.reflectivity, tn)
          /\ tret' = Some(rgb)
          /\ tlog' = [tlog EXCEPT ![Len(tlog)] = HitRecord(ThisCall, hit, n, rgb)]
    /\ tpc' = "ret"
    /\ UNCHANGED <<tfrom, tdir, tn, tstack, tpixel>>
    /\ UNCHANGED <<csgVars, marchVars, renderVars>>

\* a hit that sends a reflection ray: the secondary call of raytrace
TraceReflect ==
    /\ tpc = "call"
    /\ ThisHit.some
    /\ LET hit == ThisHit.value
           n == guess_normal(hit.p)
           rgb == apply_lights(hit.p, hit.s.surface, n, lights)
           r == reflect_vec(tdir, n)
           p == raycast_out(hit.p, r)
       IN /\ ShouldReflect(hit.s.surface.reflectivity, tn)
          /\ tstack' = Append(tstack, [rgb |-> rgb,
                                       reflectivity |-> hit.s.surface.reflectivity])
          /\ tfrom' = p
          /\ tdir' = r
          /\ tn' = NextBounces(tn)
          /\ tlog' = Append([tlog EXCEPT ![Len(tlog)] = HitRecord(ThisCall, hit, n, rgb)],
                            CallRecord(p, r, NextBounces(tn)))
    /\ UNCHANGED <<tret, tpc, tpixel>>
    /\ UNCHANGED <<csgVars, marchVars, renderVars>>

\* the secondary call returns to its caller, which blends and returns
TraceReturn ==
    /\ tpc = "ret"
    /\ tstack # << >>
    /\ LET frame == tstack[Len(tstack)]
       IN tret' = Blend(frame.rgb, frame.reflectivity, tret)
    /\ tstack' = SubSeq(tstack, 1, Len(tstack) - 1)
    /\ UNCHANGED <<tfrom, tdir, tn, tlog, tpc, tpixel>>
    /\ UNCHANGED <<csgVars, marchVars, renderVars>>

\* the top-level call returns to main's closure, which makes the pixel
TracePixel ==
    /\ tpc = "ret"
    /\ tstack = << >>
    /\ tpixel' = PixelOf(tret)
    /\ tpc' = "done"
    /\ UNCHANGED <<tfrom, tdir, tn, tstack, tret, tlog>>
    /\ UNCHANGED <<csgVars, marchVars, renderVars>>

\* the bounce count main passes
MaxBounces == 5

TraceInit ==
    /\ tfrom \in StartPoints
    /\ tdir \in Directions
    /\ tn \in 0..MaxBounces
    /\ tstack = << >>
    /\ tret = None
    /\ tlog = << CallRecord(tfrom, tdir, tn) >>
    /\ tpc = "call"
    /\ tpixel = <<0, 0, 0, 0>>

TraceIdle ==
    /\ tfrom = 0
    /\ tdir = Unit
    /\ tn = 0
    /\ tstack = << >>
    /\ tret = None
    /\ tlog = << >>
    /\ tpc = "idle"
    /\ tpixel = <<0, 0, 0, 0>>

TraceNext == TraceMiss \/ TraceHit \/ TraceReflect \/ TraceReturn \/ TracePixel

---------------------------------------------------------------------------
(* main: the parallel map over the pixel coordinates and the image *)

\* the image's width and height in pixels
Width == 8

Height == 4

NumPixels == Width * Height

\* the pixel indices, in the order of img.enumerate_pixels(): rows, x fastest
Indices == 0..(NumPixels - 1)

\* coords: the coordinate at index i of the collected enumerate_pixels()
coords(i) == <<i % Width, i \div Width>>

\* the coordinate of the i-th pixel of img.enumerate_pixels_mut()
PixelSlot(i) == <<i % Width, i \div Width>>

CoordSet == {coords(i) : i \in Indices}

\* normalize(&(p_scaled - eye)).  In the source the vector is never zero (its
\* third component is 100); on the one axis of the model the centre column's
\* vector is 0 and the ray is given the forward direction.
ray_dir(c) ==
    LET p_img == c[1] * Unit
        center == (Width * Unit) \div 2
        p_scaled == ((p_img - center) \div Min(Width, Height)) * 250
    IN IF p_scaled - eye < 0 THEN -Unit ELSE Unit

\* raytrace as a function, for main's closure
RECURSIVE raytrace(_, _, _, _)
raytrace(from, dir, ls, max_bounces) ==
    LET found == raycast(from, dir, EscapeCond(from))
    IN IF ~found.some
       THEN None
       ELSE LET hit == found.value
                n == guess_normal(hit.p)
                rgb == apply_lights(hit.p, hit.s.surface, n, ls)
            IN IF ShouldReflect(hit.s.surface.reflectivity, max_bounces)
               THEN LET r == reflect_vec(dir, n)
                        p == raycast_out(hit.p, r)
                    IN Blend(rgb, hit.s.surface.reflectivity,
                             raytrace(p, r, ls, NextBounces(max_bounces)))
               ELSE Some(rgb)

\* the colour main's closure returns for a coordinate
ClosureColor(c) == PixelOf(raytrace(eye, ray_dir(c), lights, MaxBounces))

\* the closure's colours, computed once
ColorTable == [c \in CoordSet |-> ClosureColor(c)]

\* what the closure returns, with the coordinate it was called on
ClosureResult(c) == [rgba |-> ColorTable[c], coord |-> c]

\* the same for every coordinate, computed once
ResultTable == [c \in CoordSet |-> ClosureResult(c)]

NoCoord == << >>

\* no index yet; an index i is kept as <<i>>
NoIndex == << >>

\* a slot of the collected vector that is not yet written
NoPixel == [rgba |-> << >>, coord |-> NoCoord]

\* a pixel of ImageBuffer::new
ZeroPixel == [rgba |-> <<0, 0, 0, 0>>, coord |-> NoCoord]

\* the worker threads of the pool
Workers == {1, 2}

\* the map hands a worker a run of consecutive indices at a time
ChunkLen == 8

ChunkStarts == {i \in Indices : i % ChunkLen = 0}

ChunkEnd(start) == Min(start + ChunkLen, NumPixels)

\* if *num % 16 == 0
ProgressBatch == 16

Free == 0

\* a lock that excludes nobody
CanLockAlways(w) == TRUE

\* progress.lock() returns to worker w
CanLock(w) == rlock = Free

\* results kept in the order they arrive in
CollectArrival(pixels, i, v) ==
    LET k == CHOOSE j \in DOMAIN pixels :
                 /\ pixels[j] = NoPixel
                 /\ \A h \in DOMAIN pixels : h < j => pixels[h] # NoPixel
    IN [pixels EXCEPT ![k] = v]

\* collect() puts the closure's result for index i at index i
Collect(pixels, i, v) == [pixels EXCEPT ![i] = v]

\* bar.reach_percent(*num * 100 / (width * height) as i32)
Percent(num) == (num * 100) \div NumPixels

\* a worker takes a run of indices nobody has taken
TakeChunk(w) ==
    /\ rphase = "map"
    /\ wpc[w] = "idle"
    /\ \E start \in ChunkStarts \ rtaken :
          /\ rtaken' = rtaken \cup {start}
          /\ widx' = [widx EXCEPT ![w] = start]
          /\ wend' = [wend EXCEPT ![w] = ChunkEnd(start)]
    /\ wpc' = [wpc EXCEPT ![w] = "lock"]
    /\ UNCHANGED <<rnum, rbar, rlock, wlocal, rpixels, rimg, rhist, rcount, rfirst,
                   rphase>>
    /\ UNCHANGED <<csgVars, marchVars, traceVars>>

\* let mut progress = progress.lock().unwrap(); and the read of *num += 1
Lock(w) ==
    /\ wpc[w] = "lock"
    /\ CanLock(w)
    /\ rlock' = w
    /\ wlocal' = [wlocal EXCEPT ![w] = rnum]
    /\ wpc' = [wpc EXCEPT ![w] = "incr"]
    /\ UNCHANGED <<rnum, rbar, wend, widx, rtaken, rpixels, rimg, rhist, rcount, rfirst,
                   rphase>>
    /\ UNCHANGED <<csgVars, marchVars, traceVars>>

\* the write of *num += 1, the report every 16th value, the end of the block
Increment(w) ==
    /\ wpc[w] = "incr"
    /\ rnum' = wlocal[w] + 1
    /\ rhist' = Append(rhist, rnum')
    /\ rbar' = IF rnum' % ProgressBatch = 0
               THEN Append(rbar, [num |-> rnum', percent |-> Percent(rnum')])
               ELSE rbar
    /\ rlock' = Free
    /\ wlocal' = [wlocal EXCEPT ![w] = 0]
    /\ wpc' = [wpc EXCEPT ![w] = "trace"]
    /\ UNCHANGED <<wend, widx, rtaken, rpixels, rimg, rcount, rfirst, rphase>>
    /\ UNCHANGED <<csgVars, marchVars, traceVars>>

\* the rest of the closure: the pixel's colour, collected at the pixel's index
Compute(w) ==
    /\ wpc[w] = "trace"
    /\ rpixels' = Collect(rpixels, widx[w], ClosureResult(coords(widx[w])))
    /\ rcount' = [rcount EXCEPT ![widx[w]] = @ + 1]
    /\ rfirst' = IF rfirst = NoIndex THEN <<widx[w]>> ELSE rfirst
    /\ IF widx[w] + 1 < wend[w]
       THEN /\ widx' = [widx EXCEPT ![w] = @ + 1]
            /\ wend' = wend
            /\ wpc' = [wpc EXCEPT ![w] = "lock"]
       ELSE /\ widx' = [widx EXCEPT ![w] = 0]
            /\ wend' = [wend EXCEPT ![w] = 0]
            /\ wpc' = [wpc EXCEPT ![w] = "idle"]
    /\ UNCHANGED <<rnum, rbar, rlock, wlocal, rtaken, rimg, rhist, rphase>>
    /\ UNCHANGED <<csgVars, marchVars, traceVars>>

\* collect() has returned: img.enumerate_pixels_mut().zip(pixels)
Assemble ==
    /\ rphase = "map"
    /\ rtaken = ChunkStarts
    /\ \A w \in Workers : wpc[w] = "idle"
    /\ rimg' = [c \in CoordSet |->
                  rpixels[CHOOSE i \in Indices : PixelSlot(i) = c]]
    /\ rphase' = "saved"
    /\ UNCHANGED <<rnum, rbar, rlock, wpc, wend, widx, wlocal, rtaken, rpixels, rhist,
                   rcount, rfirst>>
    /\ UNCHANGED <<csgVars, marchVars, traceVars>>

RenderInit ==
    /\ rnum = 0
    /\ rbar = << >>
    /\ rlock = Free
    /\ wpc = [w \in Workers |-> "idle"]
    /\ wend = [w \in Workers |-> 0]
    /\ widx = [w \in Workers |-> 0]
    /\ wlocal = [w \in Workers |-> 0]
    /\ rtaken = {}
    /\ rpixels = [i \in Indices |-> NoPixel]
    /\ rimg = [c \in CoordSet |-> ZeroPixel]
    /\ rhist = << >>
    /\ rcount = [i \in Indices |-> 0]
    /\ rfirst = NoIndex
    /\ rphase = "map"

RenderIdle ==
    /\ rnum = 0
    /\ rbar = << >>
    /\ rlock = Free
    /\ wpc = << >>
    /\ wend = << >>
    /\ widx = << >>
    /\ wlocal = << >>
    /\ rtaken = {}
    /\ rpixels = << >>
    /\ rimg = << >>
    /\ rhist = << >>
    /\ rcount = << >>
    /\ rfirst = NoIndex
    /\ rphase = "idle"

RenderNext ==
    \/ \E w \in Workers : TakeChunk(w)
    \/ \E w \in Workers : Lock(w)
    \/ \E w \in Workers : Increment(w)
    \/ \E w \in Workers : Compute(w)
    \/ Assemble

---------------------------------------------------------------------------
(* The CSG operators applied to arbitrary samples *)

\* largest |distance| of an input sample, in ticks
MaxDist == 2

Surfaces == {mat1, mat2, mat3}

SampleInputs == {Sample(d, m) : d \in -MaxDist..MaxDist, m \in Surfaces}

NoSample == Sample(0, Surface(Color(0, 0, 0), -1))

CsgInit ==
    /\ csgA \in SampleInputs
    /\ csgB \in SampleInputs
    /\ csgOp = "none"
    /\ csgRes = NoSample

CsgIdle ==
    /\ csgA = NoSample
    /\ csgB = NoSample
    /\ csgOp = "idle"
    /\ csgRes = NoSample

CsgUnion ==
    /\ csgOp = "none"
    /\ csgOp' = "union"
    /\ csgRes' = union(csgA, csgB)
    /\ UNCHANGED <<csgA, csgB>>
    /\ UNCHANGED <<marchVars, traceVars, renderVars>>

CsgIntersect ==
    /\ csgOp = "none"
    /\ csgOp' = "intersect"
    /\ csgRes' = intersect(csgA, csgB)
    /\ UNCHANGED <<csgA, csgB>>
    /\ UNCHANGED <<marchVars, traceVars, renderVars>>

CsgInvert ==
    /\ csgOp = "none"
    /\ csgOp' = "invert"
    /\ csgRes' = invert(csgA)
    /\ UNCHANGED <<csgA, csgB>>
    /\ UNCHANGED <<marchVars, traceVars, renderVars>>

\* invert applied to the result of invert
CsgInvertAgain ==
    /\ csgOp = "invert"
    /\ csgOp' = "invert2"
    /\ csgRes' = invert(csgRes)
    /\ UNCHANGED <<csgA, csgB>>
    /\ UNCHANGED <<marchVars, traceVars, renderVars>>

CsgNext == CsgUnion \/ CsgIntersect \/ CsgInvert \/ CsgInvertAgain

InitCSG == CsgInit /\ MarchIdle /\ TraceIdle /\ RenderIdle

SpecCSG == InitCSG /\ [][CsgNext]_vars

---------------------------------------------------------------------------
(* Specifications *)

InitMarch == MarchInit /\ CsgIdle /\ TraceIdle /\ RenderIdle

SpecMarch == InitMarch /\ [][MarchNext]_vars

\* a call that is in its loop takes its next iteration
LiveMarch == SpecMarch /\ WF_vars(MarchNext)

InitTrace == TraceInit /\ CsgIdle /\ MarchIdle /\ RenderIdle

SpecTrace == InitTrace /\ [][TraceNext]_vars

InitRender == RenderInit /\ CsgIdle /\ MarchIdle /\ TraceIdle

SpecRender == InitRender /\ [][RenderNext]_vars

---------------------------------------------------------------------------
(* The loops taken one iteration at a time and the same loops as functions  *)
(* agree, and no reachable state normalizes the zero vector.                *)

MarchAgrees ==
    mpc = "done" =>
        /\ mkind = "raycast" => mres = raycast(mfrom, mdir, mcond)
        /\ mkind = "raycast_out" => mres = Some(raycast_out(mfrom, mdir))

TraceAgrees ==
    tpc = "done" =>
        tpixel = PixelOf(raytrace(tlog[1].from, tlog[1].dir, lights, tlog[1].max_bounces))

NormalsDefined ==
    \A i \in 1..Len(tlog) : tlog[i].hit => tlog[i].n \in Directions

---------------------------------------------------------------------------
(* Claims about raycast and raycast_out (SpecMarch, LiveMarch) *)

\* the point the loop went to from the i-th point it left behind
NextPoint(i) == IF i < Len(mvisited) THEN mvisited[i + 1] ELSE mp

\* how far point v lies from the origin of the call, along the ray
Travel(v) == dot(v - mfrom, mdir)

\* C1: raycast returns a hit (s, p) only when s is the field's sample at p,
\* s.distance <= 0 and condition(p) held; every point left behind had
\* distance > 0 and satisfied the condition, and each advance is
\* dir * max(distance, 0.01); a ray that starts inside a solid with the
\* condition true returns its origin as the hit, with no step taken.
C1_RaycastHit ==
    mkind = "raycast" =>
        /\ \A i \in 1..Len(mvisited) :
              /\ distfield(mvisited[i]).distance > 0
              /\ Holds(mcond, mvisited[i])
              /\ NextPoint(i) =
                    mvisited[i] + Mul(mdir, Max(distfield(mvisited[i]).distance, MinStep))
        /\ (mpc = "done" /\ mres.some) =>
              /\ mres.value.p = mp
              /\ mres.value.s = distfield(mp)
              /\ mres.value.s.distance <= 0
              /\ Holds(mcond, mp)
        /\ (mpc = "done" /\ distfield(mfrom).distance <= 0 /\ Holds(mcond, mfrom)) =>
              /\ mres = Some([s |-> distfield(mfrom), p |-> mfrom])
              /\ mvisited = << >>

\* a hit found after at least two advances
C1_Witness ==
    /\ mkind = "raycast"
    /\ mpc = "done"
    /\ mres.some
    /\ Len(mvisited) >= 2
    /\ mres.value.s.distance < 0

\* a hit found after an advance by the minimum step
C1_WitnessMinStep ==
    /\ mkind = "raycast"
    /\ mpc = "done"
    /\ mres.some
    /\ \E i \in 1..Len(mvisited) : distfield(mvisited[i]).distance < MinStep

\* a ray that starts inside a solid
C1_WitnessInside ==
    /\ mkind = "raycast"
    /\ mpc = "done"
    /\ distfield(mfrom).distance < 0
    /\ mres.some

\* the square root of the escape bound: the length a camera or reflection ray
\* may travel
EscapeLen == (CHOOSE n \in 0..2000 : n * n = EscapeBound2) * Unit

\* the length D the condition allows along the ray
TravelBound ==
    IF mcond.kind = "escape"
    THEN EscapeLen
    ELSE Max(0, dot(mcond.pos - mfrom, mcond.l))

\* C2 (safety part): the condition is evaluated before every iteration, every
\* iteration advances by at least the minimum step, so the points the loop
\* has passed lie less than D from the origin and there are at most
\* D / 0.01 + 1 of them.
C2_IterationBound ==
    mkind = "raycast" =>
        /\ \A i \in 1..Len(mvisited) :
              /\ Holds(mcond, mvisited[i])
              /\ Travel(mvisited[i]) >= (i - 1) * MinStep
              /\ Travel(mvisited[i]) < TravelBound
              /\ Travel(NextPoint(i)) - Travel(mvisited[i]) >= MinStep
        /\ Len(mvisited) <= TravelBound \div MinStep + 1
        /\ (mpc = "done" /\ ~mres.some) => ~Holds(mcond, mp)

\* C2: a march that never reaches a point with distance <= 0 terminates with
\* no hit, within the iteration bound.
C2_EscapeTerminates ==
    /\ [](C2_IterationBound)
    /\ (mkind = "raycast") ~> (mpc = "done")
    /\ [](mkind = "raycast" /\ mpc = "done" /\ distfield(mp).distance > 0 => mres = None)

\* a ray that escaped after several iterations, one of them by the minimum step
C2_Witness ==
    /\ mkind = "raycast"
    /\ mpc = "done"
    /\ mres = None
    /\ Len(mvisited) >= 3
    /\ \E i \in 1..Len(mvisited) : distfield(mvisited[i]).distance < MinStep

\* C9: the point raycast_out returns has distance > 0, every point left behind
\* had distance <= 0, each advance is dir * max(-distance, 0.01); so raycast
\* started at the returned point does not report a hit there.
C9_RaycastOut ==
    mkind = "raycast_out" =>
        /\ \A i \in 1..Len(mvisited) :
              /\ distfield(mvisited[i]).distance <= 0
              /\ NextPoint(i) =
                    mvisited[i] + Mul(mdir, Max(-distfield(mvisited[i]).distance, MinStep))
        /\ mpc = "done" =>
              /\ mres = Some(mp)
              /\ distfield(mp).distance > 0
              /\ ~IsHit(distfield(mres.value))

\* raycast_out called on a point of distance exactly 0
C9_Witness ==
    /\ mkind = "raycast_out"
    /\ mpc = "done"
    /\ distfield(mfrom).distance = 0
    /\ mvisited # << >>

\* C10: raycast_out terminates for every origin and direction.
C10_RaycastOutTerminates == (mkind = "raycast_out") ~> (mpc = "done")

\* raycast_out returned after walking through a solid
C10_Witness ==
    /\ mkind = "raycast_out"
    /\ mpc = "done"
    /\ Len(mvisited) >= 3

---------------------------------------------------------------------------
(* Claims about raytrace, the lights and the pixel (SpecTrace) *)

C3_WitnessZero ==
    /\ tpc = "done"
    /\ tlog[1].max_bounces = 0
    /\ tlog[1].hit
    /\ tlog[1].s.surface.reflectivity > 0

\* the direction from a point to a light
LightDir(light, point) == IF light.pos > point THEN Unit ELSE -Unit

\* a march from x along l, continued only while dot(light.pos - x, l) > 0,
\* reaches a point with distance <= 0
RECURSIVE ReachesSolid(_, _, _)
ReachesSolid(x, l, light) ==
    /\ dot(light.pos - x, l) > 0
    /\ \/ distfield(x).distance <= 0
       \/ ReachesSolid(x + Mul(l, Max(distfield(x).distance, MinStep)), l, light)

\* the point is in shadow for the light
Shadowed(light, point) ==
    ReachesSolid(raycast_out(point, LightDir(light, point)), LightDir(light, point), light)

\* light.color * surface.color * max(0, dot(normal, lightDir))
Contribution(light, c) ==
    LET k == Max(0, dot(c.n, LightDir(light, c.p)))
    IN [ch \in 1..3 |-> Mul(Mul(light.color[ch], c.s.surface.color[ch]), k)]

RECURSIVE SumUnshadowed(_, _)
SumUnshadowed(i, c) ==
    IF i = 0
    THEN Black
    ELSE LET rest == SumUnshadowed(i - 1, c)
         IN IF Shadowed(lights[i], c.p)
            THEN rest
            ELSE ColorAdd(rest, Contribution(lights[i], c))

\* C6: the direct colour of a hit is the sum, without clamping, of the
\* contributions of exactly the lights the point is not in shadow for, and
\* a light is in shadow exactly when the march towards it reaches a solid
\* before passing it.
C6_DirectLight ==
    \A i \in 1..Len(tlog) :
        tlog[i].hit =>
            /\ tlog[i].direct = SumUnshadowed(Len(lights), tlog[i])
            /\ \A k \in 1..Len(lights) :
                  in_shadow(lights[k], tlog[i].p) <=> Shadowed(lights[k], tlog[i].p)

\* some solid lies beyond the light, seen from the point
SolidBeyond(light, point) ==
    \E k \in 1..40 :
        distfield(light.pos + Mul(LightDir(light, point), k * GridStep)).distance <= 0

\* a hit that one light is shadowed for and another, with a solid behind it,
\* lights
C6_Witness ==
    /\ tpc = "done"
    /\ tlog[1].hit
    /\ \E j, k \in 1..Len(lights) :
          /\ Shadowed(lights[j], tlog[1].p)
          /\ dot(tlog[1].n, LightDir(lights[j], tlog[1].p)) > 0
          /\ ~Shadowed(lights[k], tlog[1].p)
          /\ SolidBeyond(lights[k], tlog[1].p)
          /\ Contribution(lights[k], tlog[1]) # Black

\* C7: the pixel's alpha is 255 exactly when the primary ray's trace returned
\* a hit, a pixel whose primary ray escaped is (0, 0, 0, 0), and a reflection
\* ray that missed does not make the pixel transparent.
C7_Alpha ==
    tpc = "done" =>
        /\ tpixel[4] = 255 <=> tlog[1].hit
        /\ ~tlog[1].hit => tpixel = <<0, 0, 0, 0>>
        /\ tlog[1].hit => tret.some /\ tpixel = PixelOf(tret)
        /\ (Len(tlog) > 1 /\ ~tlog[Len(tlog)].hit) => tpixel[4] = 255

\* a pixel whose primary ray hit and whose reflection ray missed
C7_Witness ==
    /\ tpc = "done"
    /\ Len(tlog) = 2
    /\ tlog[1].hit
    /\ ~tlog[2].hit
    /\ tpixel[4] = 255

\* a pixel whose primary ray escaped
C7_WitnessMiss ==
    /\ tpc = "done"
    /\ ~tlog[1].hit

---------------------------------------------------------------------------
(* Claims about main (SpecRender) *)

\* C4: once the parallel map is complete the image holds at coords[i] the
\* colour computed from coords[i], whatever the order the workers took and
\* finished the pixels in; every pixel is computed and written exactly once.
C4_ImageByIndex ==
    /\ rphase = "map" =>
          \A i \in Indices :
              /\ rcount[i] <= 1
              /\ rcount[i] = 0 => rpixels[i] = NoPixel
              /\ rcount[i] = 1 =>
                    rpixels[i] = ResultTable[coords(i)]
    /\ rphase = "saved" =>
          \A i \in Indices :
              /\ rcount[i] = 1
              /\ rimg[coords(i)] = ResultTable[coords(i)]

\* the image is assembled after a run in which the pixel of index 0 was not
\* the first to be finished
C4_Witness ==
    /\ rphase = "saved"
    /\ rfirst # NoIndex
    /\ rfirst[1] > 0
    /\ rimg[coords(0)].coord = coords(0)

\* C5: the increments of the progress counter exclude each other, none is
\* lost (the counter takes each value 1..width*height once and ends at
\* width*height), the bar is updated only on multiples of 16, with
\* percentages that never decrease and never exceed 100.
C5_Progress ==
    rphase # "idle" =>
        /\ \A v, w \in Workers : (wpc[v] = "incr" /\ wpc[w] = "incr") => v = w
        /\ \A w \in Workers : wpc[w] = "incr" <=> rlock = w
        /\ Len(rhist) = rnum
        /\ \A k \in 1..Len(rhist) : rhist[k] = k
        /\ rnum <= NumPixels
        /\ rphase = "saved" => rnum = NumPixels
        /\ \A k \in 1..Len(rbar) :
              /\ rbar[k].num % 16 = 0
              /\ rbar[k].percent = (rbar[k].num * 100) \div (Width * Height)
              /\ rbar[k].percent <= 100
              /\ k > 1 => rbar[k - 1].percent <= rbar[k].percent

\* the render is complete and the bar was updated twice
C5_Witness ==
    /\ rphase = "saved"
    /\ rnum = Width * Height
    /\ Len(rbar) >= 2

\* a worker waits for the mutex another worker holds
C5_WitnessContention ==
    /\ rphase = "map"
    /\ \E v, w \in Workers : wpc[v] = "lock" /\ wpc[w] = "incr"

---------------------------------------------------------------------------
(* Claim about the CSG operators (SpecCSG) *)

\* C8: union returns one of its operands, with the smaller distance;
\* intersect returns one of its operands, with the larger distance; invert
\* negates the distance and keeps the surface; invert of invert is the
\* sample itself.
C8_CsgAlgebra ==
    /\ csgOp = "union" =>
          /\ csgRes \in {csgA, csgB}
          /\ csgRes.distance = Min(csgA.distance, csgB.distance)
    /\ csgOp = "intersect" =>
          /\ csgRes \in {csgA, csgB}
          /\ csgRes.distance = Max(csgA.distance, csgB.distance)
    /\ csgOp = "invert" =>
          /\ csgRes.distance = 0 - csgA.distance
          /\ csgRes.surface = csgA.surface
    /\ csgOp = "invert2" => csgRes = csgA

\* union of two samples of different surfaces and distances
C8_Witness ==
    /\ csgOp = "union"
    /\ csgA.distance > csgB.distance
    /\ csgA.surface # csgB.surface
    /\ csgRes = csgB

=============================================================================
